---- MODULE Spec2Model ----
(***************************************************************************)
(* Headless-WordPress front-end: the fetch/cache hook layer, the hash      *)
(* router and the ACF value renderer, as state machines.                   *)
(*                                                                         *)
(*   Spec          the cached useFetch (src/src/hooks/useWordPress.ts)     *)
(*   SpecUncached  the uncached useFetch (src/useWordPress.ts and the      *)
(*                 second hook file of src/src/hooks/useWordPress.ts)      *)
(*   SpecRoute     useRoute and App (src/App.tsx, src/src/App.tsx)         *)
(*   SpecACF       ACFValue, ACFRenderer, acfImage (src/unnamed/part_002)  *)
(***************************************************************************)
EXTENDS Integers, Sequences, FiniteSets, TLC

\* ------------------------------------------------------------------------
\* JavaScript values used by the hooks
\* ------------------------------------------------------------------------

Undefined == "undefined"
Null == "null"

\* JavaScript truthiness of the modelled values (strings standing for
\* null, undefined, "" and for objects returned by the REST client).
Truthy(v) == v \notin {Null, Undefined, ""}

\* ------------------------------------------------------------------------
\* Cached useFetch: constants and bounds
\* ------------------------------------------------------------------------

DEFAULT_STALE_MS == 60000
ACF_OPTIONS_STALE_MS == 120000

\* At most this many fetcher calls are in flight at once.
MaxFlights == 2

\* The specialisations of useFetch that a component may use: usePage (key
\* changes with the slug), useACFOptions (longer staleMs), and useFetch
\* called without options (no cacheKey).
Hooks == {"usePage", "useACFOptions", "useFetch"}

Slugs == {"a", "b"}

\* usePage: cacheKey `page:${slug}`
pageKey(slug) == IF slug = "a" THEN "page:a" ELSE "page:b"

\* usePosts: the pages of the list a visitor can ask for
Pages == {1, 2}

\* Variant: the key leaves out the page.
postsKeyNoPage(page, enabled) ==
  IF enabled THEN "posts:{enabled:true}" ELSE "posts:{enabled:false}"

\* usePosts: cacheKey `posts:${JSON.stringify({ ...params, page, enabled })}`,
\* for one value of params
postsKey(page, enabled) ==
  IF enabled THEN (IF page = 1 THEN "posts:{page:1,enabled:true}"
                   ELSE "posts:{page:2,enabled:true}")
  ELSE (IF page = 1 THEN "posts:{page:1,enabled:false}"
        ELSE "posts:{page:2,enabled:false}")

\* The keys of a component that leaves usePosts enabled.
PostsKeys == {postsKey(p, TRUE) : p \in Pages}

Keys == {pageKey(s) : s \in Slugs} \cup {"acf-options"} \cup PostsKeys

\* The cacheKey values a hook can take over its life.
cacheKeysOf(h) ==
  CASE h = "usePage" -> {pageKey(s) : s \in Slugs}
    [] h = "useACFOptions" -> {"acf-options"}
    [] h = "usePosts" -> PostsKeys
    [] OTHER -> {Undefined}

\* options.staleMs ?? DEFAULT_STALE_MS
staleMsOf(h) == IF h = "useACFOptions" THEN ACF_OPTIONS_STALE_MS ELSE DEFAULT_STALE_MS

\* String(params.page), String(params.perPage): the decimal text
numberText(n) == ToString(n)

\* params.categories.join(","), params.tags.join(",")
RECURSIVE joinNumbers(_)
joinNumbers(ns) ==
  IF ns = <<>> THEN ""
  ELSE IF Len(ns) = 1 THEN numberText(ns[1])
  ELSE numberText(ns[1]) \o "," \o joinNumbers(Tail(ns))

\* A field of QueryParams that the caller gave; the others are undefined.
Given(params, field) == field \in DOMAIN params

\* buildParams: the URLSearchParams of a query, as a set of <<name, value>>
\* pairs; a parameter that is missing or falsy is left out, _embed is on
\* unless embed is false.
buildParams(params) ==
  (IF Given(params, "page") /\ params.page # 0
   THEN {<<"page", numberText(params.page)>>} ELSE {})
  \cup (IF Given(params, "perPage") /\ params.perPage # 0
        THEN {<<"per_page", numberText(params.perPage)>>} ELSE {})
  \cup (IF Given(params, "search") /\ params.search # ""
        THEN {<<"search", params.search>>} ELSE {})
  \cup (IF Given(params, "categories") /\ Len(params.categories) # 0
        THEN {<<"categories", joinNumbers(params.categories)>>} ELSE {})
  \cup (IF Given(params, "tags") /\ Len(params.tags) # 0
        THEN {<<"tags", joinNumbers(params.tags)>>} ELSE {})
  \cup (IF Given(params, "slug") /\ params.slug # ""
        THEN {<<"slug", params.slug>>} ELSE {})
  \cup (IF Given(params, "orderby") /\ params.orderby # ""
        THEN {<<"orderby", params.orderby>>} ELSE {})
  \cup (IF Given(params, "order") /\ params.order # ""
        THEN {<<"order", params.order>>} ELSE {})
  \cup (IF Given(params, "status") /\ params.status # ""
        THEN {<<"status", params.status>>} ELSE {})
  \cup (IF Given(params, "embed") /\ params.embed = FALSE
        THEN {} ELSE {<<"_embed", "1">>})

\* getPages({ slug, perPage: 1 }) and getPosts({ slug, perPage: 1 }): the
\* query of the request
slugQuery(slug) == buildParams([slug |-> slug, perPage |-> 1])

\* The parsed lists the API can answer a query by slug with; the second
\* element is there for a server that ignores per_page.
apiAnswers(slug) ==
  IF slug = "a"
  THEN {<<>>, <<"pageA.v1">>, <<"pageA.v2">>, <<"pageA.v2", "pageA.v1">>}
  ELSE {<<>>, <<"pageB.v1">>}

\* Variant: the last element of the list.
firstOrNullLast(list) == IF list = <<>> THEN Null ELSE list[Len(list)]

\* pages[0] ?? null, posts[0] ?? null
firstOrNull(list) == IF list = <<>> THEN Null ELSE list[1]

\* What getPageBySlug(slug) and getPostBySlug(slug) can resolve to.
getBySlugResults(slug) == {firstOrNull(list) : list \in apiAnswers(slug)}

\* What the fetcher closed over a key can resolve to: getPageBySlug gives a
\* page of that slug or null, getACFOptions an options object.
fetcherResults(k) ==
  CASE k = "page:a" -> getBySlugResults("a")
    [] k = "page:b" -> getBySlugResults("b")
    [] k = "acf-options" -> {"options.v1", "options.v2"}
    [] k = postsKey(1, TRUE) -> {"posts.p1.v1", "posts.p1.v2"}
    [] k = postsKey(2, TRUE) -> {"posts.p2.v1"}
    [] k \in {postsKey(1, FALSE), postsKey(2, FALSE)} -> {"posts.none"}
    [] OTHER -> {Null, "data.v1"}

\* res.status of the answers whose res.ok is false that the API gives here
NonOkStatuses == {404, 500}

\* ${res.status} in a template string
statusText(s) == IF s = 404 THEN "404" ELSE "500"

\* Variant: the message does not name the status.
thrownMessageNoStatus(client, s) ==
  IF client = "getPosts" THEN "WP API" ELSE "WP API error - url"

\* The message of the Error the client throws on a non-OK answer:
\* fetcher throws `WP API error ${res.status} - ${url}`, getPosts
\* `WP API ${res.status}`.
thrownMessage(client, s) ==
  IF client = "getPosts"
  THEN (IF s = 404 THEN "WP API 404" ELSE "WP API 500")
  ELSE (IF s = 404 THEN "WP API error 404 - url" ELSE "WP API error 500 - url")

\* The parts a message is made of: the literal pieces of the template and
\* the values substituted in it.
messageParts(m) ==
  CASE m = "WP API 404" -> <<"WP API ", "404">>
    [] m = "WP API 500" -> <<"WP API ", "500">>
    [] m = "WP API error 404 - url" -> <<"WP API error ", "404", " - ", "url">>
    [] m = "WP API error 500 - url" -> <<"WP API error ", "500", " - ", "url">>
    [] m = "WP API" -> <<"WP API">>
    [] OTHER -> <<"WP API error ", " - ", "url">>

\* The client function a hook's fetcher calls: usePosts calls getPosts, the
\* others go through fetcher (getPageBySlug by getPages, getACFOptions).
clientOf(h) == IF h = "usePosts" THEN "getPosts" ELSE "fetcher"

\* (e as Error).message of a fetcher of hook h rejected on a non-OK answer
messagesOf(h) == {thrownMessage(clientOf(h), s) : s \in NonOkStatuses}

Messages == UNION {messagesOf(h) : h \in {"usePage", "usePosts"}}

\* Values of Date.now() that the clock takes, around the staleness boundary.
Instants(h) == {0, staleMsOf(h) - 1, staleMsOf(h), staleMsOf(h) + 1}

AllInstants == UNION {Instants(h) : h \in Hooks}

NoEntry == [data |-> Undefined, updatedAt |-> -1]
NoSwr == "none"

VARIABLES
  hook,         \* which specialisation the component uses
  memoryCache,  \* module-level Map: key -> {data, updatedAt} or NoEntry
  now,          \* Date.now()
  mounted,      \* the component using the hook is mounted
  cacheKey,     \* options.cacheKey of the last render
  state,        \* the FetchState held by useState
  phase,        \* "idle" | "render" (re-render scheduled) | "effect" (committed, effect pending)
  flights,      \* fetcher calls awaiting settlement, in start order
  swr,          \* history: the stale truthy data found at mount, until a fetch settles
  lastFulfilled, \* history: per key, the value of the last fetch fulfilled for it
  lastOp        \* history: the last operation of the hook

cvars == <<hook, memoryCache, now, mounted, cacheKey, state, phase, flights, swr, lastFulfilled, lastOp>>

VARIABLES
  variant,   \* which uncached useFetch: "simple" (src/useWordPress.ts) or "keepData" (src/src/hooks/useWordPress.ts, second hook file)
  uMounted,  \* the component using the uncached hook is mounted
  uSlug,     \* the dependency (slug) of the last render
  uState,    \* the FetchState held by useState
  uPhase,    \* "idle" | "effect" (committed, effect pending)
  uFlights,  \* fetcher calls awaiting settlement, in start order
  uSettled,  \* history: a fetch of the mounted hook settled since its last load began
  uLastOp    \* history: the last operation of the hook

uvars == <<variant, uMounted, uSlug, uState, uPhase, uFlights, uSettled, uLastOp>>


VARIABLES
  app,           \* which App: "blog" (src/App.tsx) or "festival" (src/src/App.tsx)
  locationHash,  \* window.location.hash
  hash,          \* useRoute's state
  pendingEvents, \* hashchange events dispatched and not yet handled
  view,          \* the page element App rendered
  routeOp,       \* history: the last operation of the router
  listening      \* the effect of useRoute has registered the listener

rvars == <<app, locationHash, hash, pendingEvents, view, routeOp, listening>>

VARIABLES
  fields,       \* the field object given to ACFRenderer and to the accessors
  work,         \* components React has still to render, innermost first
  visits,       \* the ACFValue calls made so far, in order
  renderStatus, \* "rendering" | "done" | "threw"
  dispatched,   \* the last direct call of ACFValue: its value and its output
  imageResult,  \* the last call of acfImage: its key and its result
  accessed      \* the last call of acfText, acfBool or acfRepeater

avars == <<fields, work, visits, renderStatus, dispatched, imageResult, accessed>>

vars == <<cvars, uvars, rvars, avars>>

\* What each component leaves alone.
notCached == <<uvars, rvars, avars>>
notUncached == <<cvars, rvars, avars>>
notRoute == <<cvars, uvars, avars>>
notACF == <<cvars, uvars, rvars>>

\* ------------------------------------------------------------------------
\* Cached useFetch: the hook body
\* ------------------------------------------------------------------------

\* memoryCache.get(key)
cacheGet(cache, key) == IF key \in DOMAIN cache THEN cache[key] ELSE NoEntry

\* useMemo: initialCached
initialCached(key, cache) ==
  IF ~Truthy(key) THEN Null
  ELSE IF cacheGet(cache, key) # NoEntry THEN cacheGet(cache, key).data ELSE Null

\* useState initial value
initialState(ic) ==
  [status |-> IF Truthy(ic) THEN "success" ELSE "loading",
   data |-> ic, error |-> Null, isFetching |-> ~Truthy(ic)]

\* Variant: an entry exactly staleMs old still counts as fresh.
isFreshInclusive(cached, t, stale) == cached # NoEntry /\ t - cached.updatedAt <= stale

\* cached && now - cached.updatedAt < staleMs
isFresh(cached, t, stale) == cached # NoEntry /\ t - cached.updatedAt < stale

\* the guard of load's early return
cacheHit(force, key, cache, t, stale) ==
  ~force /\ Truthy(key) /\ isFresh(cacheGet(cache, key), t, stale)

\* setState on a cache hit
hitState(cached) ==
  [status |-> "success", data |-> cached.data, error |-> Null, isFetching |-> FALSE]

\* Variant: a load always shows the loading status, whatever data is held.
startStateLoading(prev) ==
  [status |-> "loading", data |-> prev.data, error |-> Null, isFetching |-> TRUE]

\* setState((prev) => ...) before the fetcher is called
startState(prev) ==
  [status |-> IF Truthy(prev.data) THEN "success" ELSE "loading",
   data |-> prev.data, error |-> Null, isFetching |-> TRUE]

\* setState after the fetcher fulfilled
fulfilledState(data) ==
  [status |-> "success", data |-> data, error |-> Null, isFetching |-> FALSE]

\* Variant: a rejection records its message also when the data is kept.
rejectedStateWithMessage(prev, msg) ==
  [status |-> IF Truthy(prev.data) THEN "success" ELSE "error",
   data |-> prev.data, error |-> msg, isFetching |-> FALSE]

\* Variant: a rejection always ends in the error status and drops the data.
rejectedStateAlwaysError(prev, msg) ==
  [status |-> "error", data |-> Null, error |-> msg, isFetching |-> FALSE]

\* setState((prev) => ...) in the catch branch
rejectedState(prev, msg) ==
  [status |-> IF Truthy(prev.data) THEN "success" ELSE "error",
   data |-> prev.data,
   error |-> IF Truthy(prev.data) THEN Null ELSE msg,
   isFetching |-> FALSE]

\* Variant: the write goes under the key of the hook's latest render.
writeKeyCurrent(flight, current) == current

\* The key load writes under: the cacheKey its closure captured.
writeKey(flight, current) == flight.key

\* Variant: the entry is stamped with the time the module was loaded.
cacheSetUnstamped(cache, key, data, t) ==
  IF Truthy(key) THEN [cache EXCEPT ![key] = [data |-> data, updatedAt |-> 0]]
  ELSE cache

\* memoryCache.set(cacheKey, {data, updatedAt: Date.now()}) when cacheKey is truthy
cacheSet(cache, key, data, t) ==
  IF Truthy(key) THEN [cache EXCEPT ![key] = [data |-> data, updatedAt |-> t]]
  ELSE cache

RemoveAt(s, i) == SubSeq(s, 1, i - 1) \o SubSeq(s, i + 1, Len(s))

\* load(force), up to the await: the cache check, the state update and the
\* call of the fetcher.
load(force) ==
  IF cacheHit(force, cacheKey, memoryCache, now, staleMsOf(hook))
  THEN /\ state' = hitState(cacheGet(memoryCache, cacheKey))
       /\ flights' = flights
  ELSE /\ Len(flights) < MaxFlights
       /\ state' = startState(state)
       /\ flights' = Append(flights, [key |-> cacheKey, live |-> TRUE])

\* The {posts, total, totalPages} object a result of getPosts stands for.
postsPayload(d) ==
  CASE d = "posts.p1.v1" -> [posts |-> <<"post-1", "post-2">>, total |-> 3, totalPages |-> 2]
    [] d = "posts.p1.v2" -> [posts |-> <<"post-0", "post-1">>, total |-> 4, totalPages |-> 2]
    [] d = "posts.p2.v1" -> [posts |-> <<"post-3">>, total |-> 3, totalPages |-> 2]
    [] OTHER -> [posts |-> <<>>, total |-> 0, totalPages |-> 0]

\* usePosts: the page state the cacheKey was built from
pageOf(key) == IF key \in {postsKey(1, TRUE), postsKey(1, FALSE)} THEN 1 ELSE 2

\* Variant: totalPages is read from data.total.
usePostsTotalAsPages(st, key) ==
  [status |-> st.status, data |-> st.data, error |-> st.error, isFetching |-> st.isFetching,
   posts |-> IF st.data \in {Null, Undefined} THEN <<>> ELSE postsPayload(st.data).posts,
   total |-> IF st.data \in {Null, Undefined} THEN 0 ELSE postsPayload(st.data).total,
   totalPages |-> IF st.data \in {Null, Undefined} THEN 0 ELSE postsPayload(st.data).total,
   page |-> pageOf(key)]

\* usePosts: what the hook returns for useFetch's state
usePosts(st, key) ==
  [status |-> st.status, data |-> st.data, error |-> st.error, isFetching |-> st.isFetching,
   posts |-> IF st.data \in {Null, Undefined} THEN <<>> ELSE postsPayload(st.data).posts,
   total |-> IF st.data \in {Null, Undefined} THEN 0 ELSE postsPayload(st.data).total,
   totalPages |-> IF st.data \in {Null, Undefined} THEN 0 ELSE postsPayload(st.data).totalPages,
   page |-> pageOf(key)]

\* ------------------------------------------------------------------------
\* Cached useFetch: actions
\* ------------------------------------------------------------------------

InitCached ==
  /\ hook \in Hooks
  /\ memoryCache = [k \in Keys |-> NoEntry]
  /\ now = 0
  /\ mounted = FALSE
  /\ cacheKey = Undefined
  /\ state = initialState(Null)
  /\ phase = "idle"
  /\ flights = <<>>
  /\ swr = NoSwr
  /\ lastFulfilled = [k \in Keys |-> Undefined]
  /\ lastOp = "init"

\* The same, for a component that uses usePosts.
InitCachedPosts ==
  /\ hook = "usePosts"
  /\ memoryCache = [k \in Keys |-> NoEntry]
  /\ now = 0
  /\ mounted = FALSE
  /\ cacheKey = Undefined
  /\ state = initialState(Null)
  /\ phase = "idle"
  /\ flights = <<>>
  /\ swr = NoSwr
  /\ lastFulfilled = [k \in Keys |-> Undefined]
  /\ lastOp = "init"

\* First render of a component using the hook: useMemo and useState run,
\* the effect is scheduled.
Mount(k) ==
  /\ ~mounted
  /\ k \in cacheKeysOf(hook)
  /\ mounted' = TRUE
  /\ cacheKey' = k
  /\ state' = initialState(initialCached(k, memoryCache))
  /\ phase' = "effect"
  /\ swr' = LET c == cacheGet(memoryCache, k) IN
            IF Truthy(k) /\ c # NoEntry /\ Truthy(c.data) /\ now - c.updatedAt > staleMsOf(hook)
            THEN c.data ELSE NoSwr
  /\ lastOp' = "Mount"
  /\ UNCHANGED <<hook, memoryCache, now, flights, lastFulfilled>>
  /\ UNCHANGED notCached

\* Re-render after a state update with the same props: the wrapper hook
\* passes a new inline fetcher, so load is a new callback and the effect
\* is scheduled again.
Render ==
  /\ mounted /\ phase = "render"
  /\ phase' = "effect"
  /\ lastOp' = "Render"
  /\ UNCHANGED <<hook, memoryCache, now, mounted, cacheKey, state, flights, swr, lastFulfilled>>
  /\ UNCHANGED notCached

\* Re-render with a new slug (the router reuses the page component): the
\* state is kept, cacheKey changes, the effect is scheduled.
KeyChange(k) ==
  /\ mounted /\ phase = "render"
  /\ k \in cacheKeysOf(hook) /\ k # cacheKey
  /\ cacheKey' = k
  /\ phase' = "effect"
  /\ swr' = NoSwr
  /\ lastOp' = "KeyChange"
  /\ UNCHANGED <<hook, memoryCache, now, mounted, state, flights, lastFulfilled>>
  /\ UNCHANGED notCached

\* useEffect(() => { void load(); }, [load, ...deps])
Effect ==
  /\ mounted /\ phase = "effect"
  /\ load(FALSE)
  /\ phase' = "render"
  /\ lastOp' = IF cacheHit(FALSE, cacheKey, memoryCache, now, staleMsOf(hook)) THEN "LoadHit" ELSE "LoadFetch"
  /\ UNCHANGED <<hook, memoryCache, now, mounted, cacheKey, swr, lastFulfilled>>
  /\ UNCHANGED notCached

\* refetch: () => load(true)
Refetch ==
  /\ mounted /\ phase = "render"
  /\ load(TRUE)
  /\ phase' = "render"
  /\ lastOp' = "Refetch"
  /\ UNCHANGED <<hook, memoryCache, now, mounted, cacheKey, swr, lastFulfilled>>
  /\ UNCHANGED notCached

\* The awaited fetcher fulfils with v: the try branch after the await.
Fulfil(i, v) ==
  /\ i \in 1..Len(flights)
  /\ v \in fetcherResults(flights[i].key)
  /\ memoryCache' = cacheSet(memoryCache, writeKey(flights[i], cacheKey), v, now)
  /\ lastFulfilled' = IF Truthy(flights[i].key)
                      THEN [lastFulfilled EXCEPT ![flights[i].key] = v]
                      ELSE lastFulfilled
  /\ state' = IF flights[i].live THEN fulfilledState(v) ELSE state
  /\ flights' = RemoveAt(flights, i)
  /\ swr' = NoSwr
  /\ lastOp' = IF flights[i].live THEN "Fulfil" ELSE "FulfilUnmounted"
  /\ UNCHANGED <<hook, now, mounted, cacheKey, phase>>
  /\ UNCHANGED notCached

\* The awaited fetcher rejects with message m: the catch branch.
Reject(i, m) ==
  /\ i \in 1..Len(flights)
  /\ m \in messagesOf(hook)
  /\ state' = IF flights[i].live THEN rejectedState(state, m) ELSE state
  /\ flights' = RemoveAt(flights, i)
  /\ swr' = NoSwr
  /\ lastOp' = IF flights[i].live THEN "Reject" ELSE "RejectUnmounted"
  /\ UNCHANGED <<hook, memoryCache, now, mounted, cacheKey, phase, lastFulfilled>>
  /\ UNCHANGED notCached

\* The component unmounts: its state is dropped, later setState calls of
\* its pending loads do nothing, the loads themselves go on.
Unmount ==
  /\ mounted /\ phase = "render"
  /\ mounted' = FALSE
  /\ cacheKey' = Undefined
  /\ state' = initialState(Null)
  /\ phase' = "idle"
  /\ flights' = [i \in 1..Len(flights) |-> [flights[i] EXCEPT !.live = FALSE]]
  /\ swr' = NoSwr
  /\ lastOp' = "Unmount"
  /\ UNCHANGED <<hook, memoryCache, now, lastFulfilled>>
  /\ UNCHANGED notCached

\* Time passes.
Tick(t) ==
  /\ t \in Instants(hook) /\ t > now
  /\ now' = t
  /\ UNCHANGED <<hook, memoryCache, mounted, cacheKey, state, phase, flights, swr, lastFulfilled, lastOp>>
  /\ UNCHANGED notCached


\* ------------------------------------------------------------------------
\* Properties of the cached useFetch
\* ------------------------------------------------------------------------

AllResults == UNION {fetcherResults(k) : k \in Keys \cup {Undefined}}
LiveFlights == {i \in 1..Len(flights) : flights[i].live}

\* C1: a hook mounted on an entry with truthy data older than staleMs
\* reports status "success" with the cached data from the first render until
\* a fetch settles (never "loading"), reports isFetching while its fetcher
\* runs, and takes the new result as data when the fetcher fulfils.
C1_StaleWhileRevalidate ==
  /\ [](swr # NoSwr =>
          /\ state.status = "success"
          /\ state.data = swr
          /\ (LiveFlights # {} => state.isFetching))
  /\ [][\A i \in 1..Len(flights), v \in AllResults :
          (swr # NoSwr /\ flights[i].live /\ Fulfil(i, v)) =>
             (state'.status = "success" /\ state'.data = v)]_vars

\* C1 witness: mounted on a stale truthy entry, the background fetch running.
C1_Witness ==
  /\ swr # NoSwr
  /\ lastOp = "LoadFetch"
  /\ LiveFlights # {}
  /\ state.status = "success" /\ state.data = swr /\ state.isFetching

\* C2: when the fetcher of a mounted hook rejects, a hook holding truthy data
\* stays in status "success" with the same data and error null, a hook
\* holding no data goes to status "error" with the rejection message and data
\* null; isFetching is false in both cases.
C2_FailurePolicy ==
  [][\A i \in 1..Len(flights), m \in Messages :
       (flights[i].live /\ Reject(i, m)) =>
          /\ ~state'.isFetching
          /\ IF Truthy(state.data)
             THEN state'.status = "success" /\ state'.data = state.data /\ state'.error = Null
             ELSE state'.status = "error" /\ state'.error = m /\ state'.data = Null]_vars

\* C2 witness: a rejection that kept the data the hook held.
C2_Witness ==
  /\ lastOp = "Reject"
  /\ state.status = "success" /\ Truthy(state.data) /\ state.error = Null
  /\ ~state.isFetching

\* The freshness test of C3, written out with the documented numbers.
C3_FreshEntry ==
  LET e == cacheGet(memoryCache, cacheKey)
      stale == IF hook = "useACFOptions" THEN 120000 ELSE 60000
  IN Truthy(cacheKey) /\ e # NoEntry /\ now - e.updatedAt < stale

\* C3: a non-forced load whose entry is younger than staleMs does not call
\* the fetcher and sets success / cached data / no error / not fetching; a
\* load whose entry is missing or at least staleMs old calls the fetcher.
\* staleMs is 60000, and 120000 for useACFOptions.
C3_TimeBasedFreshness ==
  [][Effect =>
       IF C3_FreshEntry
       THEN /\ flights' = flights
            /\ state' = [status |-> "success",
                         data |-> cacheGet(memoryCache, cacheKey).data,
                         error |-> Null, isFetching |-> FALSE]
       ELSE /\ Len(flights') = Len(flights) + 1
            /\ flights'[Len(flights')].key = cacheKey]_vars

\* C3 witness: useACFOptions served from an entry 119999 ms old.
C3_Witness ==
  /\ lastOp = "LoadHit"
  /\ hook = "useACFOptions"
  /\ now - memoryCache["acf-options"].updatedAt = 119999
  /\ state.status = "success" /\ ~state.isFetching /\ flights = <<>>

\* C5: the entry under a key is a value returned by a fetcher started for
\* that key, namely the last one fulfilled for it; a fulfilment writes only
\* under the key its load was started with.
C5_CacheWritesUnderOwnKey ==
  /\ [](\A k \in Keys : memoryCache[k] # NoEntry =>
          /\ memoryCache[k].data \in fetcherResults(k)
          /\ memoryCache[k].data = lastFulfilled[k])
  /\ [][\A i \in 1..Len(flights), v \in AllResults :
          Fulfil(i, v) =>
             \A k \in Keys \ {flights[i].key} : memoryCache'[k] = memoryCache[k]]_vars

\* C5 witness: a fetch started for page:a fulfilled after the key had
\* changed to page:b, another load still in flight.
C5_Witness ==
  /\ lastOp = "Fulfil"
  /\ cacheKey = "page:b"
  /\ memoryCache["page:a"] # NoEntry /\ memoryCache["page:a"].updatedAt = now
  /\ memoryCache["page:b"] = NoEntry
  /\ flights # <<>>

\* C6: memoryCache starts empty; it changes only when a fetch started with
\* a cacheKey fulfils, and then exactly that key's entry becomes
\* {data, updatedAt = now}; no entry is removed, and a mount takes an
\* existing entry's data as initial data however old it is.
C6_WriteOnSuccessOnly ==
  /\ \A k \in Keys : memoryCache[k] = NoEntry
  /\ [][memoryCache' # memoryCache =>
          \E i \in 1..Len(flights), v \in AllResults :
             /\ Fulfil(i, v)
             /\ Truthy(flights[i].key)
             /\ memoryCache' = [memoryCache EXCEPT ![flights[i].key] =
                                  [data |-> v, updatedAt |-> now]]]_vars
  /\ [][\A k \in Keys : memoryCache[k] # NoEntry => memoryCache'[k] # NoEntry]_vars
  /\ [][\A k \in Keys :
          (Mount(k) /\ memoryCache[k] # NoEntry) => state'.data = memoryCache[k].data]_vars

\* C6 witness: a fetch rejected after the unmount, the entry still there.
C6_Witness ==
  /\ lastOp = "RejectUnmounted"
  /\ ~mounted
  /\ \E k \in Keys : memoryCache[k] # NoEntry /\ now - memoryCache[k].updatedAt >= staleMsOf(hook)

\* C12: in every state of a mounted usePosts, posts, total and totalPages are
\* [], 0 and 0 when the hook holds no data and data.posts, data.total and
\* data.totalPages when it holds data, whatever the status, and page is the
\* page the hook is on.
C12_UsePostsDerived ==
  (mounted /\ hook = "usePosts") =>
    LET r == usePosts(state, cacheKey) IN
    /\ state.data = Null =>
          r.posts = <<>> /\ r.total = 0 /\ r.totalPages = 0
    /\ state.data = "posts.p1.v1" =>
          r.posts = <<"post-1", "post-2">> /\ r.total = 3 /\ r.totalPages = 2
    /\ state.data = "posts.p1.v2" =>
          r.posts = <<"post-0", "post-1">> /\ r.total = 4 /\ r.totalPages = 2
    /\ state.data = "posts.p2.v1" =>
          r.posts = <<"post-3">> /\ r.total = 3 /\ r.totalPages = 2
    /\ state.data = "posts.none" =>
          r.posts = <<>> /\ r.total = 0 /\ r.totalPages = 0
    /\ state.data \in {Null, "posts.p1.v1", "posts.p1.v2", "posts.p2.v1", "posts.none"}
    /\ cacheKey \in {"posts:{page:1,enabled:true}", "posts:{page:1,enabled:false}"} => r.page = 1
    /\ cacheKey \in {"posts:{page:2,enabled:true}", "posts:{page:2,enabled:false}"} => r.page = 2
    /\ r.status = state.status /\ r.data = state.data /\ r.error = state.error

\* C12 witness: on page 2 the fetch rejected and the hook still holds the
\* posts of page 1, which it returns.
C12_Witness ==
  /\ mounted /\ hook = "usePosts"
  /\ lastOp = "Reject"
  /\ cacheKey = "posts:{page:2,enabled:true}"
  /\ state.data = "posts.p1.v1"
  /\ usePosts(state, cacheKey).posts = <<"post-1", "post-2">>
  /\ usePosts(state, cacheKey).page = 2

\* ------------------------------------------------------------------------
\* Uncached useFetch (src/useWordPress.ts and the second hook file of
\* src/src/hooks/useWordPress.ts), used as usePage(slug)
\* ------------------------------------------------------------------------

\* useState initial value
uInitialState(var) ==
  IF var = "simple"
  THEN [status |-> "loading", data |-> Undefined, error |-> Undefined]
  ELSE [status |-> "loading", data |-> Null, error |-> Null]

\* setState at the start of load
uLoadingState(var, prev) ==
  IF var = "simple"
  THEN [status |-> "loading", data |-> Undefined, error |-> Undefined]
  ELSE [status |-> "loading", data |-> prev.data, error |-> Null]

\* setState after the fetcher fulfilled
uSuccessState(var, data) ==
  IF var = "simple"
  THEN [status |-> "success", data |-> data, error |-> Undefined]
  ELSE [status |-> "success", data |-> data, error |-> Null]

\* setState in the catch branch
uErrorState(var, msg) ==
  IF var = "simple"
  THEN [status |-> "error", data |-> Undefined, error |-> msg]
  ELSE [status |-> "error", data |-> Null, error |-> msg]

\* load(), up to the await
uLoad ==
  /\ Len(uFlights) < MaxFlights
  /\ uState' = uLoadingState(variant, uState)
  /\ uFlights' = Append(uFlights, [slug |-> uSlug, live |-> TRUE])
  /\ uSettled' = FALSE

InitUncached ==
  /\ variant \in {"simple", "keepData"}
  /\ uMounted = FALSE
  /\ uSlug = Undefined
  /\ uState = uInitialState(variant)
  /\ uPhase = "idle"
  /\ uFlights = <<>>
  /\ uSettled = FALSE
  /\ uLastOp = "init"

\* First render: useState runs, load is memoised on [slug], the effect is
\* scheduled.
UMount(s) ==
  /\ ~uMounted
  /\ uMounted' = TRUE
  /\ uSlug' = s
  /\ uState' = uInitialState(variant)
  /\ uPhase' = "effect"
  /\ uSettled' = FALSE
  /\ uLastOp' = "Mount"
  /\ UNCHANGED <<variant, uFlights>>
  /\ UNCHANGED notUncached

\* Re-render with another slug: useCallback's deps change, load is a new
\* callback, the effect is scheduled.
UDepChange(s) ==
  /\ uMounted /\ uPhase = "idle"
  /\ s # uSlug
  /\ uSlug' = s
  /\ uPhase' = "effect"
  /\ uLastOp' = "DepChange"
  /\ UNCHANGED <<variant, uMounted, uState, uFlights, uSettled>>
  /\ UNCHANGED notUncached

\* useEffect(() => { load(); }, [load])
UEffect ==
  /\ uMounted /\ uPhase = "effect"
  /\ uLoad
  /\ uPhase' = "idle"
  /\ uLastOp' = "Load"
  /\ UNCHANGED <<variant, uMounted, uSlug>>
  /\ UNCHANGED notUncached

\* refetch: load
URefetch ==
  /\ uMounted /\ uPhase = "idle"
  /\ uLoad
  /\ uLastOp' = "Refetch"
  /\ UNCHANGED <<variant, uMounted, uSlug, uPhase>>
  /\ UNCHANGED notUncached

\* The awaited fetcher fulfils with v.
UFulfil(i, v) ==
  /\ i \in 1..Len(uFlights)
  /\ v \in fetcherResults(pageKey(uFlights[i].slug))
  /\ uState' = IF uFlights[i].live THEN uSuccessState(variant, v) ELSE uState
  /\ uSettled' = IF uFlights[i].live THEN TRUE ELSE uSettled
  /\ uFlights' = RemoveAt(uFlights, i)
  /\ uLastOp' = IF uFlights[i].live THEN "Fulfil" ELSE "FulfilUnmounted"
  /\ UNCHANGED <<variant, uMounted, uSlug, uPhase>>
  /\ UNCHANGED notUncached

\* The awaited fetcher rejects with message m.
UReject(i, m) ==
  /\ i \in 1..Len(uFlights)
  /\ m \in messagesOf("usePage")
  /\ uState' = IF uFlights[i].live THEN uErrorState(variant, m) ELSE uState
  /\ uSettled' = IF uFlights[i].live THEN TRUE ELSE uSettled
  /\ uFlights' = RemoveAt(uFlights, i)
  /\ uLastOp' = IF uFlights[i].live THEN "Reject" ELSE "RejectUnmounted"
  /\ UNCHANGED <<variant, uMounted, uSlug, uPhase>>
  /\ UNCHANGED notUncached

\* The component unmounts; its pending loads go on, their setState calls
\* do nothing.
UUnmount ==
  /\ uMounted /\ uPhase = "idle"
  /\ uMounted' = FALSE
  /\ uSlug' = Undefined
  /\ uState' = uInitialState(variant)
  /\ uPhase' = "idle"
  /\ uFlights' = [i \in 1..Len(uFlights) |-> [uFlights[i] EXCEPT !.live = FALSE]]
  /\ uSettled' = FALSE
  /\ uLastOp' = "Unmount"
  /\ UNCHANGED variant
  /\ UNCHANGED notUncached


\* ------------------------------------------------------------------------
\* Properties of the uncached useFetch
\* ------------------------------------------------------------------------

ULiveFlights == {i \in 1..Len(uFlights) : uFlights[i].live}

\* C4 as stated: a hook mounted without cached data is in status "loading"
\* from its first render and between the start of every load and that load's
\* settlement; a fulfilment leaves status "success", a rejection status
\* "error" with the rejection message.
C4_StatusLifecycle ==
  /\ (uMounted /\ uLastOp = "Mount") => uState.status = "loading"
  /\ (uMounted /\ ULiveFlights # {}) => uState.status = "loading"
  /\ uLastOp = "Fulfil" => uState.status = "success"
  /\ uLastOp = "Reject" => uState.status = "error" /\ uState.error \in Messages

\* A load settled while a later load of the same hook was still in flight:
\* the status is no longer "loading" although that load has not settled.
C4_Witness ==
  /\ uMounted
  /\ uLastOp = "Fulfil"
  /\ ULiveFlights # {}
  /\ uState.status = "success"

\* The lifecycle of loads that do not overlap: status "loading" from the first
\* render, and from the start of each load, until a fetch of the hook settles;
\* a fulfilment gives "success" with the fulfilled value, a rejection "error"
\* with the rejection message.
SingleLoadLifecycle ==
  /\ []((uMounted /\ ~uSettled) => uState.status = "loading")
  /\ [][\A i \in 1..Len(uFlights), v \in AllResults :
          (uFlights[i].live /\ UFulfil(i, v)) =>
             (uState'.status = "success" /\ uState'.data = v)]_vars
  /\ [][\A i \in 1..Len(uFlights), m \in Messages :
          (uFlights[i].live /\ UReject(i, m)) =>
             (uState'.status = "error" /\ uState'.error = m)]_vars

\* ------------------------------------------------------------------------
\* Strings, as sequences of characters
\* ------------------------------------------------------------------------

\* s.startsWith(p)
StartsWith(s, p) == Len(s) >= Len(p) /\ SubSeq(s, 1, Len(p)) = p

\* s.indexOf(p), counted from 1; 0 when p does not occur
IndexOf(s, p) ==
  LET at == {i \in 1..(Len(s) - Len(p) + 1) : SubSeq(s, i, i + Len(p) - 1) = p}
  IN IF at = {} THEN 0 ELSE CHOOSE i \in at : \A j \in at : i <= j

\* s.replace(p, r) with a string pattern: the first occurrence only
Replace(s, p, r) ==
  LET i == IndexOf(s, p)
  IN IF i = 0 THEN s
     ELSE SubSeq(s, 1, i - 1) \o r \o SubSeq(s, i + Len(p), Len(s))

\* s.split(sep)[0] for a one-character separator
SplitHead(s, sep) ==
  LET i == IndexOf(s, <<sep>>) IN IF i = 0 THEN s ELSE SubSeq(s, 1, i - 1)

\* s.slice(1)
Slice1(s) == SubSeq(s, 2, Len(s))

R_Home == <<"#", "/">>  \* "#/"
R_Blog == <<"#", "/", "b", "l", "o", "g">>  \* "#/blog"
R_PostPrefix == <<"#", "/", "p", "o", "s", "t", "/">>  \* "#/post/"
R_PagePrefix == <<"#", "/", "p", "a", "g", "e", "/">>  \* "#/page/"
R_Programmation == <<"#", "/", "p", "r", "o", "g", "r", "a", "m", "m", "a", "t", "i", "o", "n">>  \* "#/programmation"
R_Informations == <<"#", "/", "i", "n", "f", "o", "r", "m", "a", "t", "i", "o", "n", "s">>  \* "#/informations"
R_Histoire == <<"#", "/", "h", "i", "s", "t", "o", "i", "r", "e">>  \* "#/histoire"
R_Billetterie == <<"#", "/", "b", "i", "l", "l", "e", "t", "t", "e", "r", "i", "e">>  \* "#/billetterie"
Empty == <<>>

\* ------------------------------------------------------------------------
\* Hash router (useRoute and App of src/App.tsx and src/src/App.tsx)
\* ------------------------------------------------------------------------

\* hashchange events queued at once
MaxEvents == 2

R_About == R_PagePrefix \o <<"a", "b", "o", "u", "t">>  \* "#/page/about"
R_Contact == R_PagePrefix \o <<"c", "o", "n", "t", "a", "c", "t">>  \* "#/page/contact"

\* NAV_ITEMS of the two App versions: the url of each item
NAV_ITEMS(a) ==
  IF a = "blog" THEN {R_Home, R_Blog, R_About, R_Contact}
  ELSE {R_Home, R_Programmation, R_Informations, R_Histoire, R_Billetterie}

\* The hashes a visitor can put in the address bar or reach by a link.
Hashes ==
  { R_About, R_Contact,
    Empty, R_Home, R_Blog, R_Programmation, R_Informations, R_Histoire, R_Billetterie,
    R_Blog \o <<"/">>,                      \* "#/blog/"
    <<"#", "b", "l", "o", "g">>,            \* "#blog"
    R_PostPrefix, R_PostPrefix \o <<"a">>,  \* "#/post/", "#/post/a"
    R_PostPrefix \o <<"a">> \o R_PostPrefix,  \* "#/post/a#/post/"
    <<"#", "/", "p", "o", "s", "t">>,       \* "#/post"
    R_PagePrefix \o <<"a">>,                \* "#/page/a"
    R_PagePrefix \o <<"a", "/", "b">>,      \* "#/page/a/b"
    R_Informations \o <<"#", "f", "a", "q">>,  \* "#/informations#faq"
    <<"#", "/", "x">> }                     \* "#/x"

PageNotFound == "Page non trouvée"
S_informations == Slice1(Slice1(R_Informations))
S_histoire == Slice1(Slice1(R_Histoire))

Page(component, slug, text) == [component |-> component, slug |-> slug, text |-> text]

\* window.location.hash || "#/"
readHash(loc) == IF loc = Empty THEN R_Home ELSE loc

\* normalizeRoute of src/src/App.tsx
normalizeRoute(rawHash) ==
  IF rawHash = Empty \/ rawHash = <<"#">> THEN R_Home
  ELSE LET h == IF StartsWith(rawHash, <<"#">>) THEN Slice1(rawHash) ELSE rawHash
           pathOnly == SplitHead(h, "#")
       IN IF pathOnly = Empty \/ pathOnly = <<"/">> THEN R_Home
          ELSE <<"#">> \o pathOnly

\* Variant: every route under "#/blog" is the blog.
AppBlogPrefix(route) ==
  IF route = R_Home \/ route = Empty THEN Page("HomePage", Empty, "")
  ELSE IF StartsWith(route, R_Blog) THEN Page("BlogPage", Empty, "")
  ELSE IF StartsWith(route, R_PostPrefix)
       THEN Page("SinglePostPage", Replace(route, R_PostPrefix, Empty), "")
  ELSE IF StartsWith(route, R_PagePrefix)
       THEN Page("WPPageView", Replace(route, R_PagePrefix, Empty), "")
  ELSE Page("ErrorBanner", Empty, PageNotFound)

\* App of src/App.tsx: the view for a route
App(route) ==
  IF route = R_Home \/ route = Empty THEN Page("HomePage", Empty, "")
  ELSE IF route = R_Blog THEN Page("BlogPage", Empty, "")
  ELSE IF StartsWith(route, R_PostPrefix)
       THEN Page("SinglePostPage", Replace(route, R_PostPrefix, Empty), "")
  ELSE IF StartsWith(route, R_PagePrefix)
       THEN Page("WPPageView", Replace(route, R_PagePrefix, Empty), "")
  ELSE Page("ErrorBanner", Empty, PageNotFound)

\* Variant: the router has no branch for "#/histoire".
FestivalAppNoHistoire(route) ==
  IF route = R_Home \/ route = Empty THEN Page("FestivalHomePage", Empty, "")
  ELSE IF route = R_Programmation THEN Page("ProgrammationPage", Empty, "")
  ELSE IF route = R_Informations THEN Page("TwoColumnPage", S_informations, "Informations")
  ELSE IF route = R_Billetterie THEN Page("BilletteriePage", Empty, "")
  ELSE IF StartsWith(route, R_PagePrefix)
       THEN Page("WPPageView", Replace(route, R_PagePrefix, Empty), "")
  ELSE Page("ErrorBanner", Empty, PageNotFound)

\* App of src/src/App.tsx: the view for a route
FestivalApp(route) ==
  IF route = R_Home \/ route = Empty THEN Page("FestivalHomePage", Empty, "")
  ELSE IF route = R_Programmation THEN Page("ProgrammationPage", Empty, "")
  ELSE IF route = R_Informations THEN Page("TwoColumnPage", S_informations, "Informations")
  ELSE IF route = R_Histoire THEN Page("TwoColumnPage", S_histoire, "Histoire")
  ELSE IF route = R_Billetterie THEN Page("BilletteriePage", Empty, "")
  ELSE IF StartsWith(route, R_PagePrefix)
       THEN Page("WPPageView", Replace(route, R_PagePrefix, Empty), "")
  ELSE Page("ErrorBanner", Empty, PageNotFound)

\* useRoute: the state computed from window.location.hash
useRoute(a, loc) ==
  IF a = "blog" THEN readHash(loc) ELSE normalizeRoute(readHash(loc))

\* The element App renders for useRoute's state
render(a, route) == IF a = "blog" THEN App(route) ELSE FestivalApp(route)

\* The application is mounted on some address: useState reads the fragment
\* and App renders; the effect that registers the listener has not run yet.
InitRoute ==
  /\ app \in {"blog", "festival"}
  /\ locationHash \in Hashes
  /\ hash = useRoute(app, locationHash)
  /\ view = render(app, hash)
  /\ pendingEvents = 0
  /\ routeOp = "mount"
  /\ listening = FALSE

\* The effect of useRoute runs, after the first render: it registers `update`
\* for hashchange and does not read the fragment.
RouteEffect ==
  /\ ~listening
  /\ listening' = TRUE
  /\ routeOp' = "effect"
  /\ UNCHANGED <<app, locationHash, hash, pendingEvents, view>>
  /\ UNCHANGED notRoute

\* The visitor follows a link or edits the address: the fragment changes and
\* the browser queues a hashchange event.
Navigate(h) ==
  /\ h \in Hashes /\ h # locationHash
  /\ pendingEvents < MaxEvents
  /\ locationHash' = h
  /\ pendingEvents' = pendingEvents + 1
  /\ routeOp' = "navigate"
  /\ UNCHANGED <<app, hash, view, listening>>
  /\ UNCHANGED notRoute

\* The browser dispatches one hashchange event. With the listener registered
\* `update` runs and App renders again; without it the event has no effect.
HashChange ==
  /\ pendingEvents > 0
  /\ pendingEvents' = pendingEvents - 1
  /\ hash' = IF listening THEN useRoute(app, locationHash) ELSE hash
  /\ view' = render(app, hash')
  /\ routeOp' = IF listening THEN "hashchange" ELSE "lost"
  /\ UNCHANGED <<app, locationHash, listening>>
  /\ UNCHANGED notRoute

\* ------------------------------------------------------------------------
\* Properties of the router
\* ------------------------------------------------------------------------

\* The README's route table, read for a value of window.location.hash.
C7_Documented(loc) ==
  IF loc = Empty \/ loc = <<"#", "/">> THEN Page("HomePage", Empty, "")
  ELSE IF loc = <<"#", "/", "b", "l", "o", "g">> THEN Page("BlogPage", Empty, "")
  ELSE IF Len(loc) >= 7 /\ SubSeq(loc, 1, 7) = <<"#", "/", "p", "o", "s", "t", "/">>
       THEN Page("SinglePostPage", SubSeq(loc, 8, Len(loc)), "")
  ELSE IF Len(loc) >= 7 /\ SubSeq(loc, 1, 7) = <<"#", "/", "p", "a", "g", "e", "/">>
       THEN Page("WPPageView", SubSeq(loc, 8, Len(loc)), "")
  ELSE Page("ErrorBanner", Empty, "Page non trouvée")

\* C7 as stated: in the App of src/App.tsx the view is the README's for the
\* current window.location.hash, at mount and after each hashchange event,
\* that is whenever no event is waiting to be dispatched.
C7_HashRouting ==
  (app = "blog" /\ pendingEvents = 0) => view = C7_Documented(locationHash)

\* The fragment went from "#/" to "#/blog" and its hashchange event was
\* dispatched before the effect of useRoute had registered the listener: the
\* home page stays, also once the listener is there.
C7_Witness ==
  /\ app = "blog"
  /\ routeOp = "effect" /\ listening
  /\ pendingEvents = 0
  /\ locationHash = R_Blog
  /\ hash = R_Home
  /\ view = Page("HomePage", Empty, "")

\* What holds of the routing: the view is always the README's for the route
\* useRoute holds, that route is the fragment at mount, and an event
\* dispatched to the registered listener makes it the current fragment.
C7_ListenedHashRouting ==
  /\ [](app = "blog" => view = C7_Documented(IF hash = R_Home THEN Empty ELSE hash))
  /\ [](routeOp = "mount" => hash = useRoute(app, locationHash))
  /\ [][(app = "blog" /\ listening /\ HashChange) =>
          view' = C7_Documented(locationHash')]_vars

\* After a handled hashchange to "#/post/a" the single post a is shown.
C7_Handled ==
  /\ app = "blog"
  /\ routeOp = "hashchange"
  /\ pendingEvents = 0
  /\ locationHash = <<"#", "/", "p", "o", "s", "t", "/", "a">>
  /\ hash = locationHash
  /\ view = Page("SinglePostPage", <<"a">>, "")

\* The conditions of the router's branches, the fallback left out.
MatchesBranch(a, route) ==
  IF a = "blog"
  THEN \/ route \in {R_Home, Empty, R_Blog}
       \/ StartsWith(route, R_PostPrefix)
       \/ StartsWith(route, R_PagePrefix)
  ELSE \/ route \in {R_Home, Empty, R_Programmation, R_Informations,
                      R_Histoire, R_Billetterie}
       \/ StartsWith(route, R_PagePrefix)

\* C21: in both App versions the router maps the url of every item of
\* NAV_ITEMS to a page component: for the url as a value, whenever it is the
\* route App is given, at mount on it and after a click on it has been
\* handled; and the banner "Page non trouvée" is the view only for a route
\* that matches none of the router's branches.
C21_NavItemsRouted ==
  /\ \A a \in {"blog", "festival"} : \A url \in NAV_ITEMS(a) :
        /\ url \in Hashes
        /\ render(a, useRoute(a, url)).component # "ErrorBanner"
  /\ [](((hash \in NAV_ITEMS(app)) \/ (routeOp = "mount" /\ locationHash \in NAV_ITEMS(app))) =>
          (view.component # "ErrorBanner" /\ view.text # "Page non trouvée"))
  /\ [][(listening /\ HashChange /\ locationHash \in NAV_ITEMS(app)) =>
          (hash' = locationHash /\ view'.component # "ErrorBanner")]_vars
  /\ []((view.component = "ErrorBanner" /\ view.text = "Page non trouvée") <=>
          ~MatchesBranch(app, hash))

\* C21 witness: in the App of src/src/App.tsx a click on the item Histoire
\* has been handled and the two-column page of "histoire" is shown.
C21_Witness ==
  /\ app = "festival"
  /\ routeOp = "hashchange"
  /\ pendingEvents = 0
  /\ locationHash = R_Histoire
  /\ locationHash \in NAV_ITEMS(app)
  /\ view = Page("TwoColumnPage", S_histoire, "Histoire")

\* The fallback is shown for a hash outside the router's branches.
C21_Fallback ==
  /\ routeOp = "hashchange"
  /\ pendingEvents = 0
  /\ locationHash = <<"#", "/", "x">>
  /\ view = Page("ErrorBanner", Empty, PageNotFound)

\* ------------------------------------------------------------------------
\* ACF values (JSON, plus undefined for a missing key)
\* ------------------------------------------------------------------------

VNull == [t |-> "null"]
VUndefined == [t |-> "undefined"]
Str(chars) == [t |-> "string", s |-> chars]
Num(n) == [t |-> "number", n |-> n]
Bool(b) == [t |-> "boolean", b |-> b]
Arr(items) == [t |-> "array", items |-> items]
\* An object: its own properties as <<key, value>> pairs, in insertion order.
Obj(entries) == [t |-> "object", entries |-> entries]

\* typeof v
typeof(v) ==
  CASE v.t \in {"null", "array", "object"} -> "object"
    [] OTHER -> v.t

\* A method inherited from Object.prototype
VFunction == [t |-> "function"]

\* Property names every object inherits from Object.prototype
ObjectPrototypeKeys == {"constructor", "toString"}

\* Object.hasOwn(v, key)
HasOwn(v, key) ==
  v.t = "object" /\ \E i \in 1..Len(v.entries) : v.entries[i][1] = key

\* key in v, for a value with typeof "object" that is not null
In(key, v) ==
  HasOwn(v, key) \/ (v.t \in {"object", "array"} /\ key \in ObjectPrototypeKeys)

\* v[key] of an object: the own property, else the inherited one, else
\* undefined
Get(v, key) ==
  IF HasOwn(v, key)
  THEN v.entries[CHOOSE i \in 1..Len(v.entries) : v.entries[i][1] = key][2]
  ELSE IF key \in ObjectPrototypeKeys THEN VFunction
  ELSE VUndefined

\* value === null || value === undefined || value === ""
IsEmptyValue(v) == v.t \in {"null", "undefined"} \/ v = Str(<<>>)

Letters == {"a", "b", "c", "d", "e", "f", "g", "h", "i", "j", "k", "l", "m", "n", "o", "p", "q", "r", "s", "t", "u", "v", "w", "x", "y", "z", "A", "B", "C", "D", "E", "F", "G", "H", "I", "J", "K", "L", "M", "N", "O", "P", "Q", "R", "S", "T", "U", "V", "W", "X", "Y", "Z"}

\* /<[a-z][\s\S]*>/i.test(s)
HasTag(s) ==
  \E i \in 1..Len(s) :
    /\ s[i] = "<"
    /\ i + 1 <= Len(s) /\ s[i + 1] \in Letters
    /\ \E j \in (i + 2)..Len(s) : s[j] = ">"

S_http == <<"h", "t", "t", "p">>

\* The digits Object.entries gives as keys of an array's elements.
IndexKey(i) == <<"0", "1", "2", "3", "4", "5", "6", "7", "8", "9">>[i]

\* ------------------------------------------------------------------------
\* ACFRenderer (src/unnamed/part_002)
\* ------------------------------------------------------------------------

\* Variant: an object with a url is taken for an image.
isACFImageUrlOnly(v) == typeof(v) = "object" /\ v.t # "null" /\ In("url", v)

\* isACFImage
isACFImage(v) == typeof(v) = "object" /\ v.t # "null" /\ In("url", v) /\ In("alt", v)

\* isACFPost
isACFPost(v) == typeof(v) = "object" /\ v.t # "null" /\ In("ID", v) /\ In("post_title", v)

\* The element a component returns: its kind and the nested ACFRenderer
\* elements (their fields props) it contains.
Element(kind, nested) == [kind |-> kind, nested |-> nested]

\* Variant: the relation test comes before the image test.
ACFValueRelationFirst(value) ==
  IF IsEmptyValue(value) THEN Element("null", <<>>)
  ELSE IF isACFPost(value) THEN Element("relation", <<>>)
  ELSE IF isACFImage(value) THEN Element("img", <<>>)
  ELSE IF value.t = "array" THEN
    IF Len(value.items) = 0 THEN Element("null", <<>>)
    ELSE IF typeof(value.items[1]) \in {"string", "number"} THEN Element("ul", <<>>)
    ELSE Element("rows", value.items)
  ELSE IF typeof(value) = "string" /\ HasTag(value.s) THEN Element("html", <<>>)
  ELSE IF typeof(value) = "string" /\ StartsWith(value.s, S_http) THEN Element("link", <<>>)
  ELSE IF typeof(value) = "boolean" THEN Element("badge", <<>>)
  ELSE IF typeof(value) = "object" THEN Element("group", <<value>>)
  ELSE Element("span", <<>>)

\* ACFValue: the element returned for a value
ACFValue(value) ==
  IF IsEmptyValue(value) THEN Element("null", <<>>)
  ELSE IF isACFImage(value) THEN Element("img", <<>>)
  ELSE IF isACFPost(value) THEN Element("relation", <<>>)
  ELSE IF value.t = "array" THEN
    IF Len(value.items) = 0 THEN Element("null", <<>>)
    ELSE IF typeof(value.items[1]) \in {"string", "number"} THEN Element("ul", <<>>)
    ELSE Element("rows", value.items)
  ELSE IF typeof(value) = "string" /\ HasTag(value.s) THEN Element("html", <<>>)
  ELSE IF typeof(value) = "string" /\ StartsWith(value.s, S_http) THEN Element("link", <<>>)
  ELSE IF typeof(value) = "boolean" THEN Element("badge", <<>>)
  ELSE IF typeof(value) = "object" THEN Element("group", <<value>>)
  ELSE Element("span", <<>>)

\* Object.entries(v) throws a TypeError for null and undefined.
EntriesThrows(v) == v.t \in {"null", "undefined"}

\* Object.entries(v) for the other values
ObjectEntries(v) ==
  CASE v.t = "object" -> v.entries
    [] v.t = "array" -> [i \in 1..Len(v.items) |-> <<IndexKey(i), v.items[i]>>]
    [] v.t = "string" -> [i \in 1..Len(v.s) |-> <<IndexKey(i), Str(<<v.s[i]>>)>>]
    [] OTHER -> <<>>

\* ACFRenderer: the entries it renders an ACFValue for
RenderedEntries(v) ==
  LET NonEmpty(e) == ~IsEmptyValue(e[2]) IN SelectSeq(ObjectEntries(v), NonEmpty)

\* acfImage
acfImage(acf, key) ==
  LET v == Get(acf, key) IN
  IF isACFImage(v) THEN Obj(<<<<"url", Get(v, "url")>>, <<"alt", Get(v, "alt")>>>>)
  ELSE IF typeof(v) = "string" /\ StartsWith(v.s, S_http)
       THEN Obj(<<<<"url", v>>, <<"alt", Str(<<>>)>>>>)
  ELSE VNull

\* Boolean(v)
ToBoolean(v) ==
  CASE v.t \in {"null", "undefined"} -> FALSE
    [] v.t = "string" -> v.s # <<>>
    [] v.t = "number" -> v.n # 0
    [] v.t = "boolean" -> v.b
    [] OTHER -> TRUE

\* acfText
acfText(acf, key) ==
  IF typeof(Get(acf, key)) = "string" THEN Get(acf, key) ELSE Str(<<>>)

\* acfBool
acfBool(acf, key) == Bool(ToBoolean(Get(acf, key)))

\* acfRepeater: Array.isArray(acf[key]) ? acf[key] : []
acfRepeater(acf, key) ==
  IF Get(acf, key).t = "array" THEN Get(acf, key) ELSE Arr(<<>>)

\* ------------------------------------------------------------------------
\* The field objects given to the renderer
\* ------------------------------------------------------------------------

\* Nesting depth of the generated values
MaxDepth == 2

S_text == <<"a", "b">>
Texts ==
  { <<>>, S_text, S_http \o <<":">>, <<"h", "t", "t">>, <<"x">> \o S_http,
    <<"<", "b", ">">>, <<"<", "B", ">">>, <<"<", "1", ">">>, <<"a", "<", "b">>,
    S_http \o <<"<", "b", ">">> }

Image == Obj(<<<<"url", Str(S_http \o <<":">>)>>, <<"alt", Str(S_text)>>>>)
UrlOnly == Obj(<<<<"url", Str(S_http \o <<":">>)>>>>)
Post == Obj(<<<<"ID", Num(7)>>, <<"post_title", Str(S_text)>>>>)
ImagePost == Obj(<<<<"url", Str(S_http \o <<":">>)>>, <<"alt", Str(<<>>)>>,
                   <<"ID", Num(7)>>, <<"post_title", Str(S_text)>>>>)

Leaves ==
  {VNull, VUndefined, Num(0), Num(7), Bool(TRUE), Bool(FALSE)}
    \cup {Str(x) : x \in Texts}
    \cup {Arr(<<>>), Obj(<<>>), Image, UrlOnly, Post, ImagePost}

Few == {Str(S_text), VNull, Num(7), Obj(<<<<"x", Str(S_text)>>>>)}

RECURSIVE Nest(_)
Nest(d) ==
  IF d = 0 THEN Leaves
  ELSE LET sub == Nest(d - 1) IN
       sub \cup {Arr(<<x>>) : x \in sub}
           \cup {Arr(<<x, y>>) : x \in Few, y \in Few}
           \cup {Obj(<<<<"x", x>>>>) : x \in sub}
           \cup {Obj(<<<<"x", x>>, <<"y", y>>>>) : x \in Few, y \in Few}

FieldObjects ==
  {Obj(<<<<"f", v>>, <<"g", w>>>>) : v \in Nest(MaxDepth), w \in {Str(S_text), Image}}

AccessorKeys == {"f", "g", "missing", "constructor"}

NoCall == [called |-> FALSE]

\* ------------------------------------------------------------------------
\* Rendering: React renders the elements a component returns, depth first
\* ------------------------------------------------------------------------

Task(fn, value, path, showLabels) ==
  [fn |-> fn, value |-> value, path |-> path, showLabels |-> showLabels]

InitACF ==
  /\ fields \in FieldObjects
  /\ \E showLabels \in BOOLEAN : work = <<Task("ACFRenderer", fields, <<>>, showLabels)>>
  /\ visits = <<>>
  /\ renderStatus = "rendering"
  /\ dispatched = NoCall
  /\ imageResult = NoCall
  /\ accessed = NoCall

\* React renders an ACFRenderer element: one ACFValue per non-empty entry;
\* a TypeError in Object.entries aborts the render.
RenderACFRenderer ==
  /\ renderStatus = "rendering" /\ work # <<>> /\ Head(work).fn = "ACFRenderer"
  /\ LET task == Head(work) IN
     IF EntriesThrows(task.value)
     THEN /\ renderStatus' = "threw"
          /\ work' = <<>>
     ELSE LET es == RenderedEntries(task.value)
              children == [i \in 1..Len(es) |->
                             Task("ACFValue", es[i][2], Append(task.path, es[i][1]),
                                  task.showLabels)]
          IN /\ work' = children \o Tail(work)
             /\ renderStatus' = IF work' = <<>> THEN "done" ELSE "rendering"
  /\ UNCHANGED <<fields, visits, dispatched, imageResult, accessed>>
  /\ UNCHANGED notACF

\* React renders an ACFValue element: the dispatch on the value, and one
\* nested ACFRenderer per repeater row or group, with showLabels.
RenderACFValue ==
  /\ renderStatus = "rendering" /\ work # <<>> /\ Head(work).fn = "ACFValue"
  /\ LET task == Head(work)
         el == ACFValue(task.value)
         children == [i \in 1..Len(el.nested) |->
                        Task("ACFRenderer", el.nested[i],
                             IF el.kind = "rows" THEN Append(task.path, IndexKey(i))
                             ELSE task.path,
                             TRUE)]
     IN /\ visits' = Append(visits, [path |-> task.path, kind |-> el.kind,
                                     labelled |-> task.showLabels])
        /\ work' = children \o Tail(work)
        /\ renderStatus' = IF work' = <<>> THEN "done" ELSE "rendering"
  /\ UNCHANGED <<fields, dispatched, imageResult, accessed>>
  /\ UNCHANGED notACF

\* ACFValue applied to the value of one field, whatever it is.
DispatchValue(key) ==
  /\ dispatched = NoCall
  /\ key \in {"f", "g"}
  /\ dispatched' = [called |-> TRUE, value |-> Get(fields, key),
                    kind |-> ACFValue(Get(fields, key)).kind]
  /\ UNCHANGED <<fields, work, visits, renderStatus, imageResult, accessed>>
  /\ UNCHANGED notACF

\* acfImage(fields, key)
CallAcfImage(key) ==
  /\ imageResult = NoCall
  /\ key \in AccessorKeys
  /\ imageResult' = [called |-> TRUE, key |-> key, result |-> acfImage(fields, key)]
  /\ UNCHANGED <<fields, work, visits, renderStatus, dispatched, accessed>>
  /\ UNCHANGED notACF

\* A page component holding a field object, before it calls an accessor.
InitAccessors ==
  /\ fields \in FieldObjects
  /\ work = <<>>
  /\ visits = <<>>
  /\ renderStatus = "idle"
  /\ dispatched = NoCall
  /\ imageResult = NoCall
  /\ accessed = NoCall

Accessed(fn, key, result) == [called |-> TRUE, fn |-> fn, key |-> key, result |-> result]

\* acfText(fields, key)
CallAcfText(key) ==
  /\ accessed = NoCall
  /\ key \in AccessorKeys
  /\ accessed' = Accessed("acfText", key, acfText(fields, key))
  /\ UNCHANGED <<fields, work, visits, renderStatus, dispatched, imageResult>>
  /\ UNCHANGED notACF

\* acfBool(fields, key)
CallAcfBool(key) ==
  /\ accessed = NoCall
  /\ key \in AccessorKeys
  /\ accessed' = Accessed("acfBool", key, acfBool(fields, key))
  /\ UNCHANGED <<fields, work, visits, renderStatus, dispatched, imageResult>>
  /\ UNCHANGED notACF

\* acfRepeater(fields, key)
CallAcfRepeater(key) ==
  /\ accessed = NoCall
  /\ key \in AccessorKeys
  /\ accessed' = Accessed("acfRepeater", key, acfRepeater(fields, key))
  /\ UNCHANGED <<fields, work, visits, renderStatus, dispatched, imageResult>>
  /\ UNCHANGED notACF

\* ------------------------------------------------------------------------
\* Properties of the ACF renderer and accessors
\* ------------------------------------------------------------------------

HasKey(v, key) == v.t = "object" /\ \E i \in 1..Len(v.entries) : v.entries[i][1] = key

\* The kinds of element the stated precedence allows for a value; an empty
\* array counts as an array when emptyArrayIsArray, and renders nothing
\* otherwise.
C8_Allowed(v, emptyArrayIsArray) ==
  IF v = VNull \/ v = VUndefined \/ v = Str(<<>>) THEN {"null"}
  ELSE IF HasKey(v, "url") /\ HasKey(v, "alt") THEN {"img"}
  ELSE IF HasKey(v, "ID") /\ HasKey(v, "post_title") THEN {"relation"}
  ELSE IF v.t = "array" THEN
    IF Len(v.items) = 0 /\ ~emptyArrayIsArray THEN {"null"} ELSE {"ul", "rows"}
  ELSE IF v.t = "string" /\ HasTag(v.s) THEN {"html"}
  ELSE IF v.t = "string" /\ StartsWith(v.s, <<"h", "t", "t", "p">>) THEN {"link"}
  ELSE IF v.t = "boolean" THEN {"badge"}
  ELSE IF v.t = "object" THEN {"group"}
  ELSE {"span"}

\* C8 as stated: ACFValue takes the first matching branch of the precedence
\* null/undefined/"" -> nothing, image, relation, array -> list or repeater,
\* HTML, link, badge, group, scalar; every array is a list or a repeater.
C8_DispatchAsStated ==
  dispatched.called => dispatched.kind \in C8_Allowed(dispatched.value, TRUE)

\* C8 amended: the same precedence, where a non-empty array renders as a list
\* or repeater and an empty array renders nothing.
C8_DispatchPrecedence ==
  dispatched.called => dispatched.kind \in C8_Allowed(dispatched.value, FALSE)

\* C8 witness: ACFValue was applied to an object having url, alt, ID and
\* post_title and returned an image.
C8_Witness ==
  /\ dispatched.called
  /\ HasKey(dispatched.value, "url") /\ HasKey(dispatched.value, "alt")
  /\ HasKey(dispatched.value, "ID") /\ HasKey(dispatched.value, "post_title")
  /\ dispatched.kind = "img"

\* A group is an object that is neither an image nor a relation; a repeater is
\* a non-empty array of rows.
C9_IsGroup(v) ==
  /\ v.t = "object"
  /\ ~(HasKey(v, "url") /\ HasKey(v, "alt"))
  /\ ~(HasKey(v, "ID") /\ HasKey(v, "post_title"))
C9_IsRepeater(v) ==
  v.t = "array" /\ Len(v.items) > 0 /\ v.items[1].t \notin {"string", "number"}

\* The paths of the nested non-empty fields of an object: its own non-empty
\* fields, and those of every repeater row and group among them.
RECURSIVE C9_NestedFields(_, _)
C9_NestedFields(v, prefix) ==
  IF v.t # "object" THEN {}
  ELSE UNION { LET key == v.entries[i][1]
                   x == v.entries[i][2]
                   p == Append(prefix, key)
               IN IF x = VNull \/ x = VUndefined \/ x = Str(<<>>) THEN {}
                  ELSE {p} \cup
                       (IF C9_IsRepeater(x)
                        THEN UNION {C9_NestedFields(x.items[j], Append(p, IndexKey(j)))
                                      : j \in 1..Len(x.items)}
                        ELSE IF C9_IsGroup(x) THEN C9_NestedFields(x, p)
                        ELSE {})
             : i \in 1..Len(v.entries) }

\* Every repeater row, at any depth, is an object.
RECURSIVE C9_RowsAreObjects(_)
C9_RowsAreObjects(v) ==
  CASE v.t = "object" ->
         \A i \in 1..Len(v.entries) :
           LET x == v.entries[i][2] IN
           IF C9_IsRepeater(x)
           THEN \A j \in 1..Len(x.items) :
                  x.items[j].t = "object" /\ C9_RowsAreObjects(x.items[j])
           ELSE C9_IsGroup(x) => C9_RowsAreObjects(x)
    [] OTHER -> TRUE

\* C9 as stated: for every field object the recursion finishes, never aborting,
\* and has then visited each nested non-empty field exactly once, the nested
\* ones with labels shown.
C9_RecursionVisitsEachFieldOnce ==
  /\ renderStatus # "threw"
  /\ renderStatus = "done" /\ C9_RowsAreObjects(fields) =>
       /\ {visits[i].path : i \in 1..Len(visits)} = C9_NestedFields(fields, <<>>)
       /\ \A i, j \in 1..Len(visits) : visits[i].path = visits[j].path => i = j
       /\ \A i \in 1..Len(visits) : Len(visits[i].path) > 1 => visits[i].labelled

\* The same for field objects whose repeater rows are all objects: rendering
\* finishes and visits each nested non-empty field exactly once.
C9_ObjectRowsVisitedOnce ==
  C9_RowsAreObjects(fields) =>
    /\ renderStatus # "threw"
    /\ renderStatus = "done" =>
         /\ {visits[i].path : i \in 1..Len(visits)} = C9_NestedFields(fields, <<>>)
         /\ \A i, j \in 1..Len(visits) : visits[i].path = visits[j].path => i = j
         /\ \A i \in 1..Len(visits) : Len(visits[i].path) > 1 => visits[i].labelled

\* A render that aborted on a repeater row that is null.
C9_Aborted ==
  /\ renderStatus = "threw"
  /\ Get(fields, "f") = Arr(<<VNull>>)

\* C10: acfImage returns {url, alt} copied from a field having both, {url:
\* value, alt: ""} for a string starting with "http", and null otherwise.
C10_AcfImage ==
  imageResult.called =>
    LET at == {i \in 1..Len(fields.entries) : fields.entries[i][1] = imageResult.key}
        present == at # {}
        v == fields.entries[CHOOSE i \in at : TRUE][2]
    IN IF present /\ HasKey(v, "url") /\ HasKey(v, "alt")
       THEN imageResult.result =
              Obj(<<<<"url", v.entries[CHOOSE i \in 1..Len(v.entries) :
                                         v.entries[i][1] = "url"][2]>>,
                    <<"alt", v.entries[CHOOSE i \in 1..Len(v.entries) :
                                         v.entries[i][1] = "alt"][2]>>>>)
       ELSE IF present /\ v.t = "string" /\ StartsWith(v.s, <<"h", "t", "t", "p">>)
       THEN imageResult.result = Obj(<<<<"url", v>>, <<"alt", Str(<<>>)>>>>)
       ELSE imageResult.result = VNull

\* C10 witness: acfImage was called on an object with url but no alt and
\* returned null.
C10_Witness ==
  /\ imageResult.called
  /\ imageResult.key = "f"
  /\ HasKey(Get(fields, "f"), "url") /\ ~HasKey(Get(fields, "f"), "alt")
  /\ imageResult.result = VNull

\* The own property of the field object under the accessor's key, if any.
C11_Field ==
  LET at == {i \in 1..Len(fields.entries) : fields.entries[i][1] = accessed.key}
  IN IF at = {} THEN [present |-> FALSE]
     ELSE [present |-> TRUE, value |-> fields.entries[CHOOSE i \in at : TRUE][2]]

\* C11 as stated: acfText returns the field when it is a string and ""
\* otherwise, acfRepeater the field when it is an array and [] otherwise,
\* acfBool the truthiness of the field and false for a missing key.
C11_AccessorsTotal ==
  accessed.called =>
    LET f == C11_Field IN
    CASE accessed.fn = "acfText" ->
           accessed.result =
             IF f.present /\ f.value.t = "string" THEN f.value ELSE Str(<<>>)
      [] accessed.fn = "acfRepeater" ->
           accessed.result =
             IF f.present /\ f.value.t = "array" THEN f.value ELSE Arr(<<>>)
      [] OTHER ->
           accessed.result =
             Bool(/\ f.present
                  /\ f.value \notin {VNull, VUndefined, Str(<<>>), Num(0), Bool(FALSE)})

\* acfBool answered true for a key the field object does not have.
C11_Witness ==
  /\ accessed.called
  /\ accessed.fn = "acfBool"
  /\ ~C11_Field.present
  /\ accessed.result = Bool(TRUE)

\* The same for keys that Object.prototype does not define: the three
\* accessors return the field or their default.
C11_AccessorsOnOwnKeys ==
  (accessed.called /\ accessed.key \notin {"constructor", "toString"}) =>
    C11_AccessorsTotal

\* ------------------------------------------------------------------------
\* Properties of the REST client seen through the hooks
\* ------------------------------------------------------------------------

\* C13: the Error thrown on a non-OK answer has a message that contains the
\* status code, and a hook that holds no data when its request is rejected
\* with it goes to status "error" with that message and still no data.
C13_HttpFailureIsErrorState ==
  /\ \A c \in {"fetcher", "getPosts"}, s \in NonOkStatuses :
        IndexOf(messageParts(thrownMessage(c, s)), <<statusText(s)>>) > 0
  /\ [][\A i \in 1..Len(flights), s \in NonOkStatuses :
          (flights[i].live /\ ~Truthy(state.data)
             /\ Reject(i, thrownMessage(clientOf(hook), s))) =>
             /\ state'.status = "error"
             /\ state'.error = thrownMessage(clientOf(hook), s)
             /\ ~Truthy(state'.data)
             /\ ~state'.isFetching]_vars

\* C13 witness: usePage, holding no data, after a 404.
C13_Witness ==
  /\ mounted /\ hook = "usePage"
  /\ lastOp = "Reject"
  /\ state.status = "error"
  /\ state.error = thrownMessage("fetcher", 404)
  /\ state.data = Null

\* The same for the hooks without a cache: a rejection always gives status
\* "error" with the message thrown.
C13_UncachedHttpFailure ==
  [][\A i \in 1..Len(uFlights), s \in NonOkStatuses :
       (uFlights[i].live /\ UReject(i, thrownMessage("fetcher", s))) =>
          /\ uState'.status = "error"
          /\ uState'.error = thrownMessage("fetcher", s)]_vars

\* WPPageView of src/src/App.tsx: what it shows for a state of usePage
WPPageView(st) ==
  CASE st.status = "loading" /\ ~Truthy(st.data) -> "skeleton"
    [] st.status = "error" -> (IF st.error = Null THEN "Erreur de chargement" ELSE st.error)
    [] ~Truthy(st.data) -> "Page introuvable"
    [] OTHER -> st.data

\* SinglePostPage of src/App.tsx: what it shows for a state of usePost
SinglePostPage(st) ==
  CASE st.status = "loading" -> "skeleton"
    [] st.status = "error" -> st.error
    [] ~Truthy(st.data) -> "Article introuvable"
    [] OTHER -> st.data

\* C14: a lookup by slug asks for that slug with per_page=1 and resolves to
\* the first element of the answer, or null for an empty answer; a fetch
\* fulfilled with null leaves status "success" with data null, which the
\* page components show as "Page introuvable" / "Article introuvable".
C14_LookupBySlug ==
  /\ \A slug \in Slugs :
        /\ {<<"slug", slug>>, <<"per_page", "1">>} \subseteq slugQuery(slug)
        /\ \A list \in apiAnswers(slug) :
              firstOrNull(list) = IF Len(list) = 0 THEN Null ELSE Head(list)
  /\ [][\A i \in 1..Len(flights) :
          (hook = "usePage" /\ flights[i].live /\ Fulfil(i, Null)) =>
             /\ state' = [status |-> "success", data |-> Null,
                          error |-> Null, isFetching |-> FALSE]
             /\ WPPageView(state') = "Page introuvable"
             /\ SinglePostPage(state') = "Article introuvable"]_vars

\* C14 witness: page a was shown, the slug changed to b, and the lookup of b
\* found nothing.
C14_Witness ==
  /\ mounted /\ hook = "usePage"
  /\ lastOp = "Fulfil"
  /\ cacheKey = "page:b"
  /\ memoryCache["page:a"] # NoEntry
  /\ state.status = "success" /\ state.data = Null
  /\ WPPageView(state) = "Page introuvable"

\* C15 as stated: whenever a mounted hook with a cache key reports status
\* "success", its data is a value produced for that key.
C15_DataOfCurrentKey ==
  (mounted /\ Truthy(cacheKey) /\ state.status = "success") =>
     state.data \in fetcherResults(cacheKey)

\* The slug went from a to b, the fetch for page b rejected, and the hook
\* reports status "success" with the data of page a.
C15_Witness ==
  /\ mounted /\ hook = "usePage"
  /\ lastOp = "Reject"
  /\ cacheKey = "page:b"
  /\ flights = <<>>
  /\ state.status = "success" /\ state.error = Null
  /\ state.data \in fetcherResults("page:a") \ fetcherResults("page:b")

\* C16 as stated, for the hooks without a cache: once every load of the hook
\* has settled and no effect is pending, the hook's state is the one the load
\* started last produced. That load was started for the current slug, so
\* data held with status "success" is a value of the current slug.
C16_LastStartedLoadWins ==
  (uMounted /\ uPhase = "idle" /\ uFlights = <<>> /\ uState.status = "success") =>
     uState.data \in fetcherResults(pageKey(uSlug))

\* The slug went from a to b while the load for a was in flight; the load for
\* b settled first, the load for a last, and the hook shows page a under
\* slug b.
C16_Witness ==
  /\ uMounted /\ uPhase = "idle" /\ uFlights = <<>>
  /\ uLastOp = "Fulfil"
  /\ uSlug = "b"
  /\ uState.status = "success"
  /\ uState.data \in fetcherResults("page:a") \ fetcherResults("page:b")

\* The steps of the hook that call setState of a mounted component.
StateUpdates == {"LoadFetch", "LoadHit", "Refetch", "Fulfil", "Reject"}

\* The re-render React makes after a state update of the hook itself: every
\* setState of load passes a new object, so the component renders again, its
\* wrapper hook builds a new inline fetcher, useCallback returns a new load
\* and the effect, which depends on load, is scheduled.
RenderAfterSetState ==
  /\ lastOp \in StateUpdates
  /\ Render

\* C17 as stated: with cacheKey, staleMs and deps unchanged and refetch not
\* called, the fetcher is invoked at most once after the mount, so there are
\* never two fetches in flight.
C17_NoSelfTriggeredReload ==
  Len(flights) <= 1

\* The load of the mount set the state, the component rendered again and its
\* effect started a second fetch for the same key while the first was still
\* in flight.
C17_Witness ==
  /\ mounted /\ lastOp = "LoadFetch"
  /\ Len(flights) = 2
  /\ \A i \in 1..2 : flights[i].live /\ flights[i].key = cacheKey

\* C18 as stated: in every state of a mounted hook whose effect has run,
\* isFetching is true exactly when a fetcher call started by this mount of
\* the hook has not settled.
C18_IsFetchingTracksFlights ==
  (mounted /\ phase = "render") =>
     (state.isFetching <=> LiveFlights # {})

\* Two loads overlapped; the first settlement set isFetching to false while
\* the other fetch is still in flight.
C18_Witness ==
  /\ mounted /\ phase = "render"
  /\ lastOp \in {"Fulfil", "Reject"}
  /\ LiveFlights # {}
  /\ ~state.isFetching

\* C19: in every state of the cached hook, error is non-null exactly when
\* status is "error"; status "error" goes with data null and isFetching
\* false; status "loading" goes with no data and isFetching true; status is
\* never "idle".
C19_StateRecordInvariant ==
  /\ (state.error # Null) <=> (state.status = "error")
  /\ state.status = "error" => (state.data = Null /\ ~state.isFetching)
  /\ state.status = "loading" => (~Truthy(state.data) /\ state.isFetching)
  /\ state.status \in {"loading", "success", "error"}

\* C19 witness: of two overlapping loads of a hook without data one was
\* rejected, the other is still in flight.
C19_Witness ==
  /\ mounted /\ lastOp = "Reject"
  /\ LiveFlights # {}
  /\ state.status = "error" /\ state.error \in Messages
  /\ state.data = Null /\ ~state.isFetching

\* C20: the usePosts keys of different pages or enabled flags differ; when
\* the visitor comes back to page 1 and its entry is younger than staleMs,
\* the effect issues no request and the hook returns the posts of that entry
\* with status "success"; when the entry is staleMs old or older, the effect
\* starts a fetch for page 1.
C20_PagingThroughCache ==
  /\ \A p1, p2 \in Pages, e1, e2 \in BOOLEAN :
        postsKey(p1, e1) = postsKey(p2, e2) => (p1 = p2 /\ e1 = e2)
  /\ [][(Effect /\ hook = "usePosts" /\ lastOp = "KeyChange"
            /\ cacheKey = postsKey(1, TRUE)
            /\ memoryCache[postsKey(1, TRUE)] # NoEntry) =>
          LET entry == memoryCache[postsKey(1, TRUE)] IN
          IF now - entry.updatedAt < 60000
          THEN /\ flights' = flights
               /\ state'.status = "success" /\ ~state'.isFetching
               /\ usePosts(state', cacheKey).posts = postsPayload(entry.data).posts
               /\ usePosts(state', cacheKey).posts # <<>>
               /\ usePosts(state', cacheKey).page = 1
          ELSE /\ Len(flights') = Len(flights) + 1
               /\ flights'[Len(flights')] = [key |-> postsKey(1, TRUE), live |-> TRUE]]_vars

\* C20 witness: page 1 was fetched, page 2 was fetched after it, and the
\* visitor is back on page 1, 59999 ms after its fetch: no request is in
\* flight and the hook shows the posts of page 1.
C20_Witness ==
  /\ mounted /\ hook = "usePosts"
  /\ lastOp = "LoadHit"
  /\ cacheKey = postsKey(1, TRUE)
  /\ memoryCache[postsKey(2, TRUE)] # NoEntry
  /\ memoryCache[postsKey(1, TRUE)] # NoEntry
  /\ memoryCache[postsKey(2, TRUE)].updatedAt > memoryCache[postsKey(1, TRUE)].updatedAt
  /\ now - memoryCache[postsKey(1, TRUE)].updatedAt = 59999
  /\ flights = <<>>
  /\ usePosts(state, cacheKey).posts = <<"post-1", "post-2">>

\* The visitor is back on page 1 after staleMs: a fetch for page 1 is in
\* flight and page 1's entry is still the old one.
C20_StaleVisit ==
  /\ mounted /\ hook = "usePosts"
  /\ lastOp = "LoadFetch"
  /\ cacheKey = postsKey(1, TRUE)
  /\ memoryCache[postsKey(1, TRUE)] # NoEntry
  /\ now - memoryCache[postsKey(1, TRUE)].updatedAt >= 60000
  /\ flights = <<[key |-> postsKey(1, TRUE), live |-> TRUE]>>

\* ------------------------------------------------------------------------
\* Specifications: one component runs, the others rest
\* ------------------------------------------------------------------------

RestCached == InitCached /\ hook = "usePage"
RestUncached == InitUncached /\ variant = "simple"
RestRoute == InitRoute /\ app = "blog" /\ locationHash = Empty
RestACF ==
  /\ fields = Obj(<<>>)
  /\ work = <<>>
  /\ visits = <<>>
  /\ renderStatus = "done"
  /\ dispatched = NoCall
  /\ imageResult = NoCall
  /\ accessed = NoCall

\* The cached useFetch of src/src/hooks/useWordPress.ts
Init == InitCached /\ RestUncached /\ RestRoute /\ RestACF
Next ==
  \/ \E k \in Keys \cup {Undefined} : Mount(k)
  \/ Render
  \/ \E k \in Keys : KeyChange(k)
  \/ Effect
  \/ Refetch
  \/ \E i \in 1..MaxFlights, v \in AllResults : Fulfil(i, v)
  \/ \E i \in 1..MaxFlights, m \in Messages : Reject(i, m)
  \/ Unmount
  \/ \E t \in AllInstants : Tick(t)
Spec == Init /\ [][Next]_vars

\* The uncached useFetch hooks
InitU == RestCached /\ InitUncached /\ RestRoute /\ RestACF
NextU ==
  \/ \E s \in Slugs : UMount(s)
  \/ \E s \in Slugs : UDepChange(s)
  \/ UEffect
  \/ URefetch
  \/ \E i \in 1..MaxFlights, v \in AllResults : UFulfil(i, v)
  \/ \E i \in 1..MaxFlights, m \in Messages : UReject(i, m)
  \/ UUnmount
SpecUncached == InitU /\ [][NextU]_vars

\* The hash router
InitR == RestCached /\ RestUncached /\ InitRoute /\ RestACF
NextR ==
  \/ RouteEffect
  \/ \E h \in Hashes : Navigate(h)
  \/ HashChange
SpecRoute == InitR /\ [][NextR]_vars

\* The ACF renderer and accessors
InitA == RestCached /\ RestUncached /\ RestRoute /\ InitACF
NextA ==
  \/ RenderACFRenderer
  \/ RenderACFValue
  \/ \E key \in AccessorKeys : DispatchValue(key)
  \/ \E key \in AccessorKeys : CallAcfImage(key)
SpecACF == InitA /\ [][NextA]_vars

\* usePosts on the cached useFetch
InitP == InitCachedPosts /\ RestUncached /\ RestRoute /\ RestACF
SpecPosts == InitP /\ [][Next]_vars

\* A mounted cached hook left alone: no key change, no refetch, no unmount;
\* the only renders are those its own state updates cause.
NextSteady ==
  \/ \E k \in Keys \cup {Undefined} : Mount(k)
  \/ RenderAfterSetState
  \/ Effect
  \/ \E i \in 1..MaxFlights, v \in AllResults : Fulfil(i, v)
  \/ \E i \in 1..MaxFlights, m \in Messages : Reject(i, m)
  \/ \E t \in AllInstants : Tick(t)
SpecSteady == Init /\ [][NextSteady]_vars

\* The typed accessors
InitAcc == RestCached /\ RestUncached /\ RestRoute /\ InitAccessors
NextAcc ==
  \/ \E key \in AccessorKeys : CallAcfText(key)
  \/ \E key \in AccessorKeys : CallAcfBool(key)
  \/ \E key \in AccessorKeys : CallAcfRepeater(key)
SpecAccessors == InitAcc /\ [][NextAcc]_vars

====
